---- MODULE Spec2Model ----
(***************************************************************************)
(* Model of the code generation template tool (src/code_generator.py):     *)
(* the TemplateEngine (template store seeding, load, render, write) and    *)
(* the CodeGenerator facade (package, class, test, list) acting on a       *)
(* filesystem.  Text is modelled by TLA+ strings, the filesystem by a      *)
(* function from the paths that exist to their nodes.                      *)
(***************************************************************************)
EXTENDS Integers, Sequences, FiniteSets, TLC

VARIABLES
    fs,        \* the filesystem: existing path |-> [kind, content]
    engine,    \* templates_dir of the constructed TemplateEngine, NoEngine before
    last,      \* the last call: its arguments, outcome and the filesystem before it
    written,   \* output path |-> text of the last successful create_from_template
    steps      \* number of calls made so far

vars == <<fs, engine, last, written, steps>>

(***************************************************************************)
(* Bounds of the model.                                                    *)
(***************************************************************************)
MaxSteps == 2
MaxTemplateLen == 4
MaxNameLen == 3

(***************************************************************************)
(* Text: characters, prefixes, substrings.                                 *)
(***************************************************************************)
Char(s, i) == IF 1 <= i /\ i <= Len(s) THEN SubSeq(s, i, i) ELSE ""

StartsWith(s, p) == Len(p) <= Len(s) /\ SubSeq(s, 1, Len(p)) = p

EndsWith(s, p) == Len(p) <= Len(s) /\ SubSeq(s, Len(s) - Len(p) + 1, Len(s)) = p

Contains(s, sub) ==
    \E i \in 1..(Len(s) - Len(sub) + 1) : SubSeq(s, i, i + Len(sub) - 1) = sub

\* s[n:] of Python
DropFirst(s, n) == SubSeq(s, n + 1, Len(s))

UpperChars == "ABCDEFGHIJKLMNOPQRSTUVWXYZ"
LowerChars == "abcdefghijklmnopqrstuvwxyz"
DigitChars == "0123456789"

\* the set of the characters of `chars`
CharsOf(chars) == {Char(chars, i) : i \in 1..Len(chars)}

UpperSet == CharsOf(UpperChars)
LowerSet == CharsOf(LowerChars)
DigitSet == CharsOf(DigitChars)

IsUpper(c) == c \in UpperSet

\* str.lower() on one (ASCII) character
LowerChar(c) ==
    IF IsUpper(c)
    THEN Char(LowerChars, CHOOSE i \in 1..Len(UpperChars) : Char(UpperChars, i) = c)
    ELSE c

RECURSIVE Lower(_)
Lower(s) == IF s = "" THEN "" ELSE LowerChar(Char(s, 1)) \o Lower(DropFirst(s, 1))

\* every string over the characters of `chars` of length at most n
RECURSIVE StringsUpTo(_, _)
StringsUpTo(chars, n) ==
    IF n = 0 THEN {""}
    ELSE LET shorter == StringsUpTo(chars, n - 1)
         IN  shorter \cup {s \o Char(chars, i) : s \in shorter, i \in 1..Len(chars)}

(***************************************************************************)
(* string.Template: the placeholder pattern and substitute().  After the   *)
(* delimiter "$" the pattern tries, in this order: a second "$" (group     *)
(* escaped), an identifier (named), an identifier in braces (braced), and  *)
(* otherwise matches the lone "$" (invalid).  An identifier is an ASCII    *)
(* letter or underscore followed by ASCII letters, digits and underscores, *)
(* matched greedily and case-insensitively.                                *)
(***************************************************************************)
IdStartSet == LowerSet \cup UpperSet \cup {"_"}

IdCharSet == IdStartSet \cup DigitSet

IsIdStart(c) == c \in IdStartSet

IsIdChar(c) == c \in IdCharSet

\* index of the last character of the (greedy) identifier starting at i
RECURSIVE IdEnd(_, _)
IdEnd(t, i) == IF IsIdChar(Char(t, i + 1)) THEN IdEnd(t, i + 1) ELSE i

\* the match of the pattern at a "$" at index i: its group and where it ends
MatchAt(t, i) ==
    LET named_end == IdEnd(t, i + 1)
        braced_end == IdEnd(t, i + 2)
    IN  IF Char(t, i + 1) = "$"
        THEN [group |-> "escaped", name |-> "", end |-> i + 1]
        ELSE IF IsIdStart(Char(t, i + 1))
        THEN [group |-> "named", name |-> SubSeq(t, i + 1, named_end), end |-> named_end]
        ELSE IF /\ Char(t, i + 1) = "{"
                /\ IsIdStart(Char(t, i + 2))
                /\ Char(t, braced_end + 1) = "}"
        THEN [group |-> "braced", name |-> SubSeq(t, i + 2, braced_end),
              end |-> braced_end + 1]
        ELSE [group |-> "invalid", name |-> "", end |-> i]

\* the indices of the "$" characters of t
Dollars(t) == {j \in 1..Len(t) : SubSeq(t, j, j) = "$"}

\* the first of the indices `at` that is at or after i, Len(t) + 1 when none is
NextDollar(t, at, i) ==
    LET rest == {j \in at : j >= i}
    IN  IF rest = {} THEN Len(t) + 1 ELSE CHOOSE j \in rest : \A k \in rest : j <= k

\* the matches of the pattern in t from index i on, left to right
RECURSIVE MatchesFrom(_, _, _)
MatchesFrom(t, at, i) ==
    LET d == NextDollar(t, at, i)
        mo == MatchAt(t, d)
    IN  IF d > Len(t) THEN <<>> ELSE <<mo>> \o MatchesFrom(t, at, mo.end + 1)

Matches(t) == MatchesFrom(t, Dollars(t), 1)

\* the placeholder names a template text references
Placeholders(t) ==
    LET ms == Matches(t)
    IN  {ms[k].name : k \in {j \in 1..Len(ms) : ms[j].group \in {"named", "braced"}}}

\* substitute() with an escape copied as it stands, both "$" kept
RECURSIVE SubstituteFromKeepEscape(_, _, _, _, _)
SubstituteFromKeepEscape(t, at, i, mapping, acc) ==
    LET d == NextDollar(t, at, i)
        mo == MatchAt(t, d)
        copied == acc \o SubSeq(t, i, d - 1)
    IN  IF d > Len(t) THEN [status |-> "ok", text |-> copied, key |-> ""]
        ELSE CASE mo.group = "escaped" ->
                    SubstituteFromKeepEscape(t, at, mo.end + 1, mapping, copied \o "$$")
               [] mo.group \in {"named", "braced"} ->
                    IF mo.name \in DOMAIN mapping
                    THEN SubstituteFromKeepEscape(t, at, mo.end + 1, mapping,
                                                  copied \o mapping[mo.name])
                    ELSE [status |-> "KeyError", text |-> "", key |-> mo.name]
               [] OTHER -> [status |-> "ValueError", text |-> "", key |-> ""]

\* Template(t).substitute(mapping): pattern.sub(convert, t), left to right;
\* the text between matches is copied, convert raises KeyError for a name
\* not in the mapping and ValueError for an invalid "$"; a substituted value
\* is not scanned again.
RECURSIVE SubstituteFrom(_, _, _, _, _)
SubstituteFrom(t, at, i, mapping, acc) ==
    LET d == NextDollar(t, at, i)
        mo == MatchAt(t, d)
        copied == acc \o SubSeq(t, i, d - 1)
    IN  IF d > Len(t) THEN [status |-> "ok", text |-> copied, key |-> ""]
        ELSE CASE mo.group = "escaped" ->
                    SubstituteFrom(t, at, mo.end + 1, mapping, copied \o "$")
               [] mo.group \in {"named", "braced"} ->
                    IF mo.name \in DOMAIN mapping
                    THEN SubstituteFrom(t, at, mo.end + 1, mapping,
                                        copied \o mapping[mo.name])
                    ELSE [status |-> "KeyError", text |-> "", key |-> mo.name]
               [] OTHER -> [status |-> "ValueError", text |-> "", key |-> ""]

\* a substitution that gives the template text back where substitute() raises
SubstituteLenient(t, mapping) ==
    IF SubstituteFrom(t, Dollars(t), 1, mapping, "").status = "ok"
    THEN SubstituteFrom(t, Dollars(t), 1, mapping, "")
    ELSE [status |-> "ok", text |-> t, key |-> ""]

Substitute(t, mapping) == SubstituteFrom(t, Dollars(t), 1, mapping, "")

(***************************************************************************)
(* Paths (pathlib.Path) as "/"-separated strings; "." is the working       *)
(* directory.                                                              *)
(***************************************************************************)
\* index of the last "/" of p, 0 when there is none
LastSlash(p) ==
    LET at == {i \in 1..Len(p) : SubSeq(p, i, i) = "/"}
    IN  IF at = {} THEN 0 ELSE CHOOSE i \in at : \A j \in at : j <= i

\* Path.name
Name(p) == DropFirst(p, LastSlash(p))

\* Path.parent
Parent(p) ==
    LET i == LastSlash(p)
    IN  IF i = 0 THEN "."
        ELSE IF i = 1 THEN "/"
        ELSE SubSeq(p, 1, i - 1)

\* Path(a) / b: an absolute b replaces a, "." and "" add nothing
Join(a, b) ==
    IF StartsWith(b, "/") THEN b
    ELSE IF b = "" \/ b = "." THEN a
    ELSE IF a = "." \/ a = "" THEN b
    ELSE IF a = "/" THEN a \o b
    ELSE a \o "/" \o b

\* index of the last "." of s, 0 when there is none
LastDot(s) ==
    LET at == {i \in 1..Len(s) : SubSeq(s, i, i) = "."}
    IN  IF at = {} THEN 0 ELSE CHOOSE i \in at : \A j \in at : j <= i

\* Path.suffix: the part of the name from its last dot on, when that dot is
\* neither the first nor the last character of the name
Suffix(p) ==
    LET name == Name(p)
        i == LastDot(name)
    IN  IF 1 < i /\ i < Len(name) THEN DropFirst(name, i - 1) ELSE ""

\* Path.with_suffix(suffix)
WithSuffix(p, suffix) == SubSeq(p, 1, Len(p) - Len(Suffix(p))) \o suffix

\* str(Path(p).relative_to(base)) for p equal to base or below it
RelativeTo(p, base) == IF p = base THEN "." ELSE DropFirst(p, Len(base) + 1)

IsUnder(p, base) == StartsWith(p, base \o "/")

(***************************************************************************)
(* The filesystem.                                                         *)
(***************************************************************************)
Dir == [kind |-> "dir", content |-> ""]

File(text) == [kind |-> "file", content |-> text]

Exists(f, p) == p \in DOMAIN f

IsDir(f, p) == Exists(f, p) /\ f[p].kind = "dir"

IsFile(f, p) == Exists(f, p) /\ f[p].kind = "file"

Put(f, p, node) == [q \in DOMAIN f \cup {p} |-> IF q = p THEN node ELSE f[q]]

\* os.mkdir(p)
OsMkdir(f, p) ==
    IF Exists(f, p) THEN [status |-> "FileExistsError", fs |-> f]
    ELSE IF ~Exists(f, Parent(p)) THEN [status |-> "FileNotFoundError", fs |-> f]
    ELSE IF ~IsDir(f, Parent(p)) THEN [status |-> "NotADirectoryError", fs |-> f]
    ELSE [status |-> "ok", fs |-> Put(f, p, Dir)]

\* Path(p).mkdir(parents=parents, exist_ok=exist_ok)
RECURSIVE Mkdir(_, _, _, _)
Mkdir(f, p, parents, exist_ok) ==
    LET r == OsMkdir(f, p)
    IN  CASE r.status = "ok" -> r
          [] r.status = "FileNotFoundError" ->
                IF ~parents \/ Parent(p) = p THEN r
                ELSE LET up == Mkdir(f, Parent(p), TRUE, TRUE)
                     IN  IF up.status # "ok" THEN up
                         ELSE Mkdir(up.fs, p, FALSE, exist_ok)
          [] OTHER ->
                IF exist_ok /\ IsDir(f, p) THEN [status |-> "ok", fs |-> f] ELSE r

\* open(p, 'a') followed by write(text): the text is added to what the file holds
WriteFileAppend(f, p, text) ==
    IF IsDir(f, p) THEN [status |-> "IsADirectoryError", fs |-> f]
    ELSE IF ~Exists(f, Parent(p)) THEN [status |-> "FileNotFoundError", fs |-> f]
    ELSE IF ~IsDir(f, Parent(p)) THEN [status |-> "NotADirectoryError", fs |-> f]
    ELSE [status |-> "ok",
          fs |-> Put(f, p, File((IF IsFile(f, p) THEN f[p].content ELSE "") \o text))]

\* open(p, 'w') followed by write(text): the file is truncated, then written
WriteFile(f, p, text) ==
    IF IsDir(f, p) THEN [status |-> "IsADirectoryError", fs |-> f]
    ELSE IF ~Exists(f, Parent(p)) THEN [status |-> "FileNotFoundError", fs |-> f]
    ELSE IF ~IsDir(f, Parent(p)) THEN [status |-> "NotADirectoryError", fs |-> f]
    ELSE [status |-> "ok", fs |-> Put(f, p, File(text))]

\* open(p, 'r') followed by read()
ReadFile(f, p) ==
    IF ~Exists(f, p) THEN [status |-> "FileNotFoundError", text |-> ""]
    ELSE IF IsDir(f, p) THEN [status |-> "IsADirectoryError", text |-> ""]
    ELSE [status |-> "ok", text |-> f[p].content]

(***************************************************************************)
(* TemplateEngine.                                                         *)
(***************************************************************************)
python_pkg_template ==
    "\"\"\"\n"
    \o "$package_name package\n"
    \o "\n"
    \o "Created on $date\n"
    \o "\"\"\"\n"
    \o "\n"
    \o "__version__ = \"0.1.0\"\n"
    \o "__author__ = \"$author\"\n"
    \o "\n"
    \o "def main():\n"
    \o "    \"\"\"\n"
    \o "    Main function for $package_name\n"
    \o "    \"\"\"\n"
    \o "    print(\"$package_name version {__version__}\")\n"
    \o "\n"
    \o "\n"
    \o "if __name__ == \"__main__\":\n"
    \o "    main()\n"

python_class_template ==
    "\"\"\"\n"
    \o "$module_name module\n"
    \o "\n"
    \o "Created on $date\n"
    \o "\"\"\"\n"
    \o "\n"
    \o "class $class_name:\n"
    \o "    \"\"\"\n"
    \o "    A class representing $class_name\n"
    \o "    \"\"\"\n"
    \o "    \n"
    \o "    def __init__(self$constructor_params):\n"
    \o "        \"\"\"\n"
    \o "        Initialize the $class_name instance.\n"
    \o "        \"\"\"\n"
    \o "$constructor_body\n"
    \o "\n"
    \o "    def __str__(self):\n"
    \o "        \"\"\"\n"
    \o "        String representation of the $class_name instance.\n"
    \o "        \"\"\"\n"
    \o "        return f\"$class_name()\"\n"
    \o "\n"
    \o "    def __repr__(self):\n"
    \o "        \"\"\"\n"
    \o "        Developer-friendly representation of the $class_name instance.\n"
    \o "        \"\"\"\n"
    \o "        return f\"$class_name()\"\n"

python_test_template ==
    "\"\"\"\n"
    \o "Tests for $module_name\n"
    \o "\"\"\"\n"
    \o "\n"
    \o "import pytest\n"
    \o "from $module_name import $class_name\n"
    \o "\n"
    \o "\n"
    \o "class Test$class_name:\n"
    \o "    \"\"\"\n"
    \o "    Test cases for $class_name class\n"
    \o "    \"\"\"\n"
    \o "    \n"
    \o "    def test_initialization(self):\n"
    \o "        \"\"\"\n"
    \o "        Test initialization of $class_name\n"
    \o "        \"\"\"\n"
    \o "        obj = $class_name()\n"
    \o "        assert obj is not None\n"
    \o "\n"
    \o "    def test_string_representation(self):\n"
    \o "        \"\"\"\n"
    \o "        Test string representation of $class_name\n"
    \o "        \"\"\"\n"
    \o "        obj = $class_name()\n"
    \o "        assert isinstance(str(obj), str)\n"

\* the `templates` dict of _create_default_templates, in insertion order
templates ==
    << [template_path |-> "python/package.py", content |-> python_pkg_template],
       [template_path |-> "python/class.py", content |-> python_class_template],
       [template_path |-> "python/test.py", content |-> python_test_template] >>

\* the body of the loop over templates.items() after the parent directory
\* is made: the content is written only when nothing exists at the path
seed_write_always(made, full_path, content) ==
    IF made.status # "ok" THEN made
    ELSE WriteFile(made.fs, full_path, content)

seed_write(made, full_path, content) ==
    IF made.status # "ok" THEN made
    ELSE IF Exists(made.fs, full_path) THEN made
    ELSE WriteFile(made.fs, full_path, content)

\* one iteration of the loop over templates.items()
SeedOne(f, full_path, content) ==
    seed_write(Mkdir(f, Parent(full_path), TRUE, TRUE), full_path, content)

RECURSIVE SeedFrom(_, _, _)
SeedNext(one, templates_dir, k) ==
    IF one.status # "ok" THEN one ELSE SeedFrom(one.fs, templates_dir, k + 1)

SeedFrom(f, templates_dir, k) ==
    IF k > Len(templates) THEN [status |-> "ok", fs |-> f]
    ELSE SeedNext(SeedOne(f, Join(templates_dir, templates[k].template_path),
                          templates[k].content),
                  templates_dir, k)

\* TemplateEngine._create_default_templates, after the mkdir of python/
seed_templates(made, templates_dir) ==
    IF made.status # "ok" THEN made ELSE SeedFrom(made.fs, templates_dir, 1)

\* TemplateEngine._create_default_templates
create_default_templates(f, templates_dir) ==
    seed_templates(Mkdir(f, Join(templates_dir, "python"), FALSE, TRUE), templates_dir)

\* TemplateEngine.__init__, after the mkdir of templates_dir
init_made(made, templates_dir) ==
    IF made.status # "ok" THEN made
    ELSE create_default_templates(made.fs, templates_dir)

\* TemplateEngine.__init__(templates_dir)
engine_init(f, templates_dir) ==
    init_made(Mkdir(f, templates_dir, FALSE, TRUE), templates_dir)

\* the path load_template resolves a template name to
template_path_of(templates_dir, template_name) ==
    LET template_path == Join(templates_dir, template_name)
    IN  IF Suffix(template_path) = "" THEN WithSuffix(template_path, ".py")
        ELSE template_path

\* TemplateEngine.load_template
load_template(f, templates_dir, template_name) ==
    LET template_path == template_path_of(templates_dir, template_name)
    IN  IF ~Exists(f, template_path)
        THEN [status |-> "FileNotFoundError", text |-> ""]
        ELSE ReadFile(f, template_path)

\* datetime.now().strftime("%Y-%m-%d") of a clock reading [year, month, day]
Digit(n) == Char(DigitChars, n + 1)

Pad2(n) == Digit((n \div 10) % 10) \o Digit(n % 10)

Pad4(n) == Pad2(n \div 100) \o Pad2(n % 100)

strftime(now) == Pad4(now.year) \o "-" \o Pad2(now.month) \o "-" \o Pad2(now.day)

\* the mapping after the default `date` is added when the caller gave none
with_date(variables, now) ==
    IF "date" \in DOMAIN variables THEN variables
    ELSE [k \in DOMAIN variables \cup {"date"} |->
            IF k = "date" THEN strftime(now) ELSE variables[k]]

\* TemplateEngine.generate_from_template, after the template is loaded
render_loaded(loaded, variables) ==
    IF loaded.status # "ok"
    THEN [status |-> loaded.status, text |-> "", key |-> ""]
    ELSE Substitute(loaded.text, variables)

\* TemplateEngine.generate_from_template
generate_from_template(f, templates_dir, template_name, variables, now) ==
    render_loaded(load_template(f, templates_dir, template_name),
                  with_date(variables, now))

\* TemplateEngine.create_from_template: the write of the generated code
write_result(wrote, generated) ==
    [status |-> wrote.status, stage |-> "write", fs |-> wrote.fs,
     text |-> generated.text, key |-> ""]

\* TemplateEngine.create_from_template, after the parents of output_path are made
write_made(made, generated, output_path) ==
    IF made.status # "ok"
    THEN [status |-> made.status, stage |-> "mkdir", fs |-> made.fs,
          text |-> generated.text, key |-> ""]
    ELSE write_result(WriteFile(made.fs, output_path, generated.text), generated)

\* TemplateEngine.create_from_template, after generate_from_template: an
\* error of the rendering leaves before any directory is made
write_generated(f, generated, output_path) ==
    IF generated.status # "ok"
    THEN [status |-> generated.status, stage |-> "render", fs |-> f,
          text |-> "", key |-> generated.key]
    ELSE write_made(Mkdir(f, Parent(output_path), TRUE, TRUE), generated, output_path)

\* the same with the parents of output_path made before the rendering is looked at
write_generated_after_mkdir(made, generated, output_path) ==
    IF generated.status # "ok"
    THEN [status |-> generated.status, stage |-> "render", fs |-> made.fs,
          text |-> "", key |-> generated.key]
    ELSE write_made(made, generated, output_path)

create_from_template_mkdir_first(f, templates_dir, template_name, output_path, variables, now) ==
    write_generated_after_mkdir(
        Mkdir(f, Parent(output_path), TRUE, TRUE),
        generate_from_template(f, templates_dir, template_name, variables, now),
        output_path)

\* TemplateEngine.create_from_template; `stage` is the step that raised
create_from_template(f, templates_dir, template_name, output_path, variables, now) ==
    write_generated(
        f,
        generate_from_template(f, templates_dir, template_name, variables, now),
        output_path)

(***************************************************************************)
(* CodeGenerator.                                                          *)
(***************************************************************************)
\* the pattern (?<!^)(?=[A-Z]) of re.sub: it matches the empty string at
\* offset p of s when p is not the start of s and an uppercase letter follows
EmptyMatchAnywhere(s, p) == IsUpper(Char(s, p + 1))

EmptyMatchAt(s, p) == p # 0 /\ IsUpper(Char(s, p + 1))

\* re.sub(pattern, '_', s) from offset p on: the replacement is inserted at
\* every match, the other characters are copied
RECURSIVE InsertUnderscores(_, _)
InsertUnderscores(s, p) ==
    IF p > Len(s) THEN ""
    ELSE (IF EmptyMatchAt(s, p) THEN "_" ELSE "")
         \o Char(s, p + 1) \o InsertUnderscores(s, p + 1)

\* the module name derived from the class name in create_python_class
snake_case(class_name) == Lower(InsertUnderscores(class_name, 0))

\* the same derivation as written in create_test_file
snake_case_test(class_name) == Lower(InsertUnderscores(class_name, 0))

\* an absent (None) and a supplied optional argument
None == [given |-> FALSE, value |-> ""]

Some(v) == [given |-> TRUE, value |-> v]

\* dict.get(key, default)
Get(kwargs, key, default) == IF key \in DOMAIN kwargs THEN kwargs[key] ELSE default

\* the result of create_python_package: `stage` is the step that raised
\* ("mkdir", "init", "main") or "done", `text` the code last written
package_result(status, stage, f, output_path, text) ==
    [status |-> status, stage |-> stage, fs |-> f, text |-> text,
     init_path |-> Join(output_path, "__init__.py"),
     main_path |-> Join(output_path, "main.py")]

\* create_python_package, after the second create_from_template
package_second(first, second, output_path) ==
    IF second.status # "ok"
    THEN package_result(second.status, "main", second.fs, output_path, first.text)
    ELSE package_result("ok", "done", second.fs, output_path, second.text)

\* create_python_package, after the first create_from_template
package_first(first, templates_dir, output_path, variables, now) ==
    IF first.status # "ok"
    THEN package_result(first.status, "init", first.fs, output_path, "")
    ELSE package_second(
            first,
            create_from_template(first.fs, templates_dir, "python/package.py",
                                 Join(output_path, "main.py"), variables, now),
            output_path)

\* create_python_package, after output_path.mkdir(exist_ok=True)
package_made(made, templates_dir, output_path, variables, now) ==
    IF made.status # "ok"
    THEN package_result(made.status, "mkdir", made.fs, output_path, "")
    ELSE package_first(
            create_from_template(made.fs, templates_dir, "python/package.py",
                                 Join(output_path, "__init__.py"), variables, now),
            templates_dir, output_path, variables, now)

\* a result that keeps the filesystem f when the call failed
rolled_back(f, r) == IF r.status = "ok" THEN r ELSE [r EXCEPT !.fs = f]

create_python_package_all_or_nothing(f, templates_dir, package_name, author, output_dir, now) ==
    rolled_back(f, package_made(Mkdir(f, Join(output_dir, package_name), FALSE, TRUE),
                                templates_dir,
                                Join(output_dir, package_name),
                                [package_name |-> package_name, author |-> author],
                                now))

\* CodeGenerator.create_python_package
create_python_package(f, templates_dir, package_name, author, output_dir, now) ==
    package_made(Mkdir(f, Join(output_dir, package_name), FALSE, TRUE),
                 templates_dir,
                 Join(output_dir, package_name),
                 [package_name |-> package_name, author |-> author],
                 now)

\* the result of create_python_class and of create_test_file
module_result(made, module, output_path) ==
    [status |-> made.status, stage |-> made.stage, fs |-> made.fs,
     text |-> made.text, module_name |-> module, output_path |-> output_path]

\* create_python_class, once module_name is settled
class_of_module(f, templates_dir, class_name, module, output_dir, kwargs, now) ==
    module_result(
        create_from_template(
            f, templates_dir, "python/class.py",
            Join(output_dir, module \o ".py"),
            [class_name |-> class_name,
             module_name |-> module,
             constructor_params |-> Get(kwargs, "constructor_params", ""),
             constructor_body |-> Get(kwargs, "constructor_body", "        pass")],
            now),
        module,
        Join(output_dir, module \o ".py"))

\* CodeGenerator.create_python_class
create_python_class(f, templates_dir, class_name, module_name, output_dir, kwargs, now) ==
    class_of_module(f, templates_dir, class_name,
                    IF ~module_name.given THEN snake_case(class_name)
                    ELSE module_name.value,
                    output_dir, kwargs, now)

\* create_test_file, once module_name is settled
test_of_module(f, templates_dir, class_name, module, output_dir, now) ==
    module_result(
        create_from_template(
            f, templates_dir, "python/test.py",
            Join(output_dir, "test_" \o module \o ".py"),
            [class_name |-> class_name, module_name |-> module],
            now),
        module,
        Join(output_dir, "test_" \o module \o ".py"))

\* CodeGenerator.create_test_file
create_test_file(f, templates_dir, class_name, module_name, output_dir, now) ==
    test_of_module(f, templates_dir, class_name,
                   IF ~module_name.given THEN snake_case_test(class_name)
                   ELSE module_name.value,
                   output_dir, now)

\* the orders in which a directory's entries can be enumerated
Perms(S) ==
    {q \in [1..Cardinality(S) -> S] : \A i, j \in 1..Cardinality(S) : q[i] = q[j] => i = j}

Children(f, d) == {p \in DOMAIN f : p # d /\ Parent(p) = d}

\* os.walk(top), top-down: the sequences of (root, files) it can yield; the
\* order of the entries of a directory is whatever the filesystem gives
RECURSIVE Walks(_, _)
RECURSIVE WalksOfAll(_, _)
Walks(f, top) ==
    IF ~IsDir(f, top) THEN {<<>>}
    ELSE LET files == {Name(c) : c \in {c \in Children(f, top) : IsFile(f, c)}}
             dirs == {c \in Children(f, top) : IsDir(f, c)}
         IN  {<<[root |-> top, files |-> fo]>> \o below :
                 fo \in Perms(files), below \in UNION {WalksOfAll(f, do) : do \in Perms(dirs)}}

WalksOfAll(f, dirs) ==
    IF dirs = <<>> THEN {<<>>}
    ELSE {a \o b : a \in Walks(f, Head(dirs)), b \in WalksOfAll(f, Tail(dirs))}

\* the name list_templates gives the file `file` of directory `root`
template_name_strip_always(templates_dir, root, file) ==
    DropFirst(Join(RelativeTo(root, templates_dir), file), 2)

template_name_of(templates_dir, root, file) ==
    LET rel_path == RelativeTo(root, templates_dir)
        template_name == Join(rel_path, file)
    IN  IF StartsWith(template_name, ".") THEN DropFirst(template_name, 2)
        ELSE template_name

\* the inner loop of list_templates over the files of one directory
RECURSIVE entries_of_files(_, _, _)
entries_of_files(templates_dir, root, files) ==
    IF files = <<>> THEN <<>>
    ELSE (IF EndsWith(Head(files), ".py")
          THEN <<[name |-> template_name_of(templates_dir, root, Head(files)),
                  file |-> Join(root, Head(files))]>>
          ELSE <<>>)
         \o entries_of_files(templates_dir, root, Tail(files))

\* the outer loop of list_templates over a walk: each appended name, with the
\* file it was made from
RECURSIVE entries_of_walk(_, _)
entries_of_walk(templates_dir, walk) ==
    IF walk = <<>> THEN <<>>
    ELSE entries_of_files(templates_dir, Head(walk).root, Head(walk).files)
         \o entries_of_walk(templates_dir, Tail(walk))

\* the names of a sequence of entries
names_of(entries) == [i \in 1..Len(entries) |-> entries[i].name]

\* CodeGenerator.list_templates, for one walk of the store
list_templates(templates_dir, walk) == names_of(entries_of_walk(templates_dir, walk))

(***************************************************************************)
(* The state machine: calls on one CodeGenerator over one filesystem.      *)
(***************************************************************************)
NoEngine == ""

NoCall == [op |-> "none", args |-> <<>>, res |-> <<>>, pre |-> <<>>]

\* `written` after a successful create_from_template of `text` at `path`
Wrote(w, path, text) == [q \in DOMAIN w \cup {path} |-> IF q = path THEN text ELSE w[q]]

\* the call record kept in `last`
Call(op, args, res) == [op |-> op, args |-> args, res |-> res, pre |-> fs]

\* the part of a result that is returned or raised (the rest is the filesystem)
Outcome(r) == [k \in DOMAIN r \ {"fs"} |-> r[k]]

Constructed(templates_dir, r) ==
    /\ fs' = r.fs
    /\ engine' = IF r.status = "ok" THEN templates_dir ELSE engine
    /\ last' = Call("construct", [templates_dir |-> templates_dir], Outcome(r))
    /\ UNCHANGED <<written, steps>>

\* CodeGenerator(templates_dir): constructs the TemplateEngine, which seeds
Construct(dirs) ==
    \E templates_dir \in dirs :
        Constructed(templates_dir, engine_init(fs, templates_dir))

LoadTemplate(names) ==
    /\ engine # NoEngine
    /\ \E template_name \in names :
        /\ last' = Call("load_template", [template_name |-> template_name],
                        load_template(fs, engine, template_name))
        /\ UNCHANGED <<fs, engine, written, steps>>

GenerateFromTemplate(names, maps, clocks) ==
    /\ engine # NoEngine
    /\ \E template_name \in names, variables \in maps, now \in clocks :
        /\ last' = Call("generate_from_template",
                        [template_name |-> template_name, variables |-> variables],
                        generate_from_template(fs, engine, template_name, variables, now))
        /\ UNCHANGED <<fs, engine, written, steps>>

\* a call that writes one file at r.output_path when it succeeds
WroteOne(op, args, output_path, r) ==
    /\ fs' = r.fs
    /\ written' = IF r.status = "ok" THEN Wrote(written, output_path, r.text)
                  ELSE written
    /\ last' = Call(op, args, Outcome(r))
    /\ steps' = steps + 1
    /\ UNCHANGED engine

CreateFromTemplate(names, paths, maps, clocks) ==
    /\ engine # NoEngine
    /\ steps < MaxSteps
    /\ \E template_name \in names, output_path \in paths, variables \in maps, now \in clocks :
        WroteOne("create_from_template",
                 [template_name |-> template_name, output_path |-> output_path,
                  variables |-> variables],
                 output_path,
                 create_from_template(fs, engine, template_name, output_path,
                                      variables, now))

\* `written` after create_python_package: the first file is written once the
\* call got to its second write, the second file when the call succeeded
WrotePackage(w, r) ==
    IF r.stage = "done"
    THEN Wrote(Wrote(w, r.init_path, r.text), r.main_path, r.text)
    ELSE IF r.stage = "main" THEN Wrote(w, r.init_path, r.text)
    ELSE w

CreatedPackage(args, r) ==
    /\ fs' = r.fs
    /\ written' = WrotePackage(written, r)
    /\ last' = Call("create_python_package", args, Outcome(r))
    /\ steps' = steps + 1
    /\ UNCHANGED engine

CreatePythonPackage(names, authors, dirs, clocks) ==
    /\ engine # NoEngine
    /\ steps < MaxSteps
    /\ \E package_name \in names, author \in authors, output_dir \in dirs, now \in clocks :
        CreatedPackage([package_name |-> package_name, author |-> author,
                        output_dir |-> output_dir],
                       create_python_package(fs, engine, package_name, author,
                                             output_dir, now))

CreatedModule(op, args, r) == WroteOne(op, args, r.output_path, r)

CreatePythonClass(names, modules, dirs, kwargss, clocks) ==
    /\ engine # NoEngine
    /\ steps < MaxSteps
    /\ \E class_name \in names, module_name \in modules, output_dir \in dirs,
          kwargs \in kwargss, now \in clocks :
        CreatedModule("create_python_class",
                      [class_name |-> class_name, module_name |-> module_name,
                       output_dir |-> output_dir, kwargs |-> kwargs],
                      create_python_class(fs, engine, class_name, module_name,
                                          output_dir, kwargs, now))

CreateTestFile(names, modules, dirs, clocks) ==
    /\ engine # NoEngine
    /\ steps < MaxSteps
    /\ \E class_name \in names, module_name \in modules, output_dir \in dirs, now \in clocks :
        CreatedModule("create_test_file",
                      [class_name |-> class_name, module_name |-> module_name,
                       output_dir |-> output_dir],
                      create_test_file(fs, engine, class_name, module_name,
                                       output_dir, now))

\* the result of list_templates, with the file each name was made from
Listed(entries) == [status |-> "ok", entries |-> entries, names |-> names_of(entries)]

ListTemplates ==
    /\ engine # NoEngine
    /\ \E walk \in Walks(fs, engine) :
        /\ last' = Call("list_templates", <<>>, Listed(entries_of_walk(engine, walk)))
        /\ UNCHANGED <<fs, engine, written, steps>>

(***************************************************************************)
(* The filesystems a run starts from and the arguments of the calls.       *)
(***************************************************************************)
TemplatesDir == "store"

Clocks == {[year |-> 2024, month |-> 2, day |-> 9]}

\* the working directory with an output directory; out/blocked/main.py is a
\* directory, so no file can be written at that path
OutputTree ==
    ("." :> Dir) @@ ("out" :> Dir) @@ ("out/blocked" :> Dir)
    @@ ("out/blocked/main.py" :> Dir)

user_class_template == "class $class_name:  # ours\n"

\* files a user may have put into the store before the engine is constructed
UserFiles ==
    [path : {"store/python/class.py"}, node : {File(user_class_template)}]
    \cup [path : {"store/top.py"}, node : {File("Hello ${name} on $date\n")}]
    \cup [path : {"store/.hidden.py"}, node : {File("hidden $name\n")}]
    \cup [path : {"store/.d/t.py"}, node : {File("in a dot directory\n")}]
    \cup [path : {"store/README"}, node : {File("not a template\n")}]

\* f with the file `entry` added below directories that are made as needed
RECURSIVE WithDirs(_, _)
WithDirs(f, p) ==
    IF Exists(f, p) THEN f ELSE Put(WithDirs(f, Parent(p)), p, Dir)

WithFile(f, entry) == Put(WithDirs(f, Parent(entry.path)), entry.path, entry.node)

RECURSIVE WithFiles(_, _)
WithFiles(f, entries) ==
    IF entries = {} THEN f
    ELSE LET e == CHOOSE x \in entries : TRUE
         IN  WithFiles(WithFile(f, e), entries \ {e})

\* the store the user edited: their own class template and a template of theirs
UserStore ==
    WithFiles(OutputTree, {e \in UserFiles : e.path \in {"store/python/class.py",
                                                         "store/top.py"}})

ClassVariables ==
    [class_name |-> "Widget", module_name |-> "widget",
     constructor_params |-> ", size", constructor_body |-> "        self.size = size"]

(***************************************************************************)
(* Spec: construction and the writing operations, starting before the      *)
(* first construction from a store that is absent, empty, or edited by     *)
(* the user.                                                               *)
(***************************************************************************)
Init ==
    /\ fs \in {OutputTree, Put(OutputTree, TemplatesDir, Dir), UserStore}
    /\ engine = NoEngine
    /\ last = NoCall
    /\ written = <<>>
    /\ steps = 0

Next ==
    \/ Construct({TemplatesDir})
    \/ CreateFromTemplate({"python/class", "python/test.py", "missing"},
                          {"out/a.py", "new/sub/a.py"},
                          {ClassVariables, [name |-> "World"]},
                          Clocks)
    \/ CreatePythonPackage({"demo", "blocked"}, {"Alice"}, {"out", "new"}, Clocks)

Spec == Init /\ [][Next]_vars

(***************************************************************************)
(* SpecList: listing and loading, over every store a user can have made    *)
(* from UserFiles.                                                         *)
(***************************************************************************)
InitList ==
    /\ fs \in {WithFiles(Put(OutputTree, TemplatesDir, Dir), files) :
                   files \in SUBSET UserFiles}
    /\ engine = NoEngine
    /\ last = NoCall
    /\ written = <<>>
    /\ steps = 0

NextList ==
    \/ Construct({TemplatesDir})
    \/ LoadTemplate({"python/class", "python/test.py", ".hidden.py", "idden.py", "top"})
    \/ ListTemplates

SpecList == InitList /\ [][NextList]_vars

(***************************************************************************)
(* SpecRender: rendering, of the built-in templates and of every template  *)
(* text over TemplateChars of at most MaxTemplateLen characters, stored    *)
(* as the template t of a constructed engine.                              *)
(***************************************************************************)
TemplateChars == "${}ab"

RenderMaps == {<<>>, [a |-> "x"], [a |-> "$b"], [a |-> "x", b |-> "y"]}

PackageMaps ==
    {[package_name |-> "demo"],
     [package_name |-> "demo", author |-> "Alice"],
     [package_name |-> "demo", author |-> "Alice", date |-> "today"]}

InitRender ==
    /\ fs \in {engine_init(Put(OutputTree, "store/t.py", File(text)), TemplatesDir).fs :
                   text \in StringsUpTo(TemplateChars, MaxTemplateLen)}
    /\ engine = TemplatesDir
    /\ last = NoCall
    /\ written = <<>>
    /\ steps = 0

NextRender ==
    \/ GenerateFromTemplate({"t", "missing"}, RenderMaps, Clocks)
    \/ GenerateFromTemplate({"python/package"}, PackageMaps, Clocks)

SpecRender == InitRender /\ [][NextRender]_vars

(***************************************************************************)
(* SpecDerive: one create_python_class or create_test_file call on a       *)
(* seeded store, for every class name over NameChars of at most MaxNameLen *)
(* characters and the names of the documentation.                          *)
(***************************************************************************)
NameChars == "ABc_1"

ClassNames ==
    StringsUpTo(NameChars, MaxNameLen) \cup {"MyClassName", "Widget", "HTTPServer"}

InitDerive ==
    /\ fs = engine_init(OutputTree, TemplatesDir).fs
    /\ engine = TemplatesDir
    /\ last = NoCall
    /\ written = <<>>
    /\ steps = MaxSteps - 1

NextDerive ==
    \/ CreatePythonClass(ClassNames, {None, Some("given")}, {"out"},
                         {<<>>, [constructor_params |-> ", size"]}, Clocks)
    \/ CreateTestFile(ClassNames, {None, Some("given")}, {"out"}, Clocks)

SpecDerive == InitDerive /\ [][NextDerive]_vars

(***************************************************************************)
(* Properties.                                                             *)
(***************************************************************************)
\* the path of the k-th built-in template under templates_dir
BuiltinPath(templates_dir, k) == Join(templates_dir, templates[k].template_path)

Builtins == 1..Len(templates)

\* the directories above p, up to the working directory
RECURSIVE Ancestors(_)
Ancestors(p) ==
    IF Parent(p) = p \/ Parent(p) \in {".", "/"} THEN {}
    ELSE {Parent(p)} \cup Ancestors(Parent(p))

DollarCount(s) == Cardinality(Dollars(s))

\* C1: default seeding never overwrites.  After a construction, every
\* built-in template file that existed when seeding ran is exactly what it
\* was (user-edited content included), every built-in template file that was
\* absent holds the built-in content, and a seeding that found all of them
\* changed nothing at all.
C1_SeedingNeverOverwrites ==
    last.op = "construct" =>
        /\ \A k \in Builtins :
              LET p == BuiltinPath(last.args.templates_dir, k)
              IN  IF Exists(last.pre, p) THEN fs[p] = last.pre[p]
                  ELSE IsFile(fs, p) /\ fs[p].content = templates[k].content
        /\ (\A k \in Builtins : Exists(last.pre, BuiltinPath(last.args.templates_dir, k)))
              => fs = last.pre

\* a construction that found an edited built-in template and an absent one
C1_Witness ==
    /\ last.op = "construct"
    /\ \E k \in Builtins :
          /\ IsFile(last.pre, BuiltinPath(last.args.templates_dir, k))
          /\ last.pre[BuiltinPath(last.args.templates_dir, k)].content
                # templates[k].content
    /\ \E k \in Builtins : ~Exists(last.pre, BuiltinPath(last.args.templates_dir, k))

\* the text a template of the store and the placeholders a mapping lacks
TemplateText(f, templates_dir, template_name) ==
    load_template(f, templates_dir, template_name).text

Missing(text, variables) == Placeholders(text) \ (DOMAIN variables \cup {"date"})

\* the index in Matches(text) of the first placeholder the mapping lacks
FirstMissing(text, variables) ==
    LET ms == Matches(text)
        lacking == {j \in 1..Len(ms) : /\ ms[j].group \in {"named", "braced"}
                                       /\ ms[j].name \in Missing(text, variables)}
    IN  CHOOSE j \in lacking : \A k \in lacking : j <= k

InvalidBefore(text, n) ==
    \E j \in 1..(n - 1) : Matches(text)[j].group = "invalid"

HasInvalid(text) == InvalidBefore(text, Len(Matches(text)) + 1)

Rendered ==
    /\ last.op = "generate_from_template"
    /\ load_template(fs, engine, last.args.template_name).status = "ok"

\* C2 as stated: for every template and every mapping that lacks a
\* placeholder the template references (other than date),
\* generate_from_template returns no text and fails with an error naming a
\* placeholder that is missing from the mapping.
C2_MissingVariableNamed ==
    LET text == TemplateText(fs, engine, last.args.template_name)
    IN  (Rendered /\ Missing(text, last.args.variables) # {}) =>
            /\ last.res.status # "ok"
            /\ last.res.text = ""
            /\ last.res.key \in Missing(text, last.args.variables)

\* C2 amended: under the same condition generate_from_template returns no
\* text and fails; the error is a KeyError naming the first placeholder of
\* the text that is missing from the mapping, unless an invalid "$" comes
\* before that placeholder in the text, and then it is a ValueError naming
\* no placeholder.
C2_MissingVariableOrInvalid ==
    LET text == TemplateText(fs, engine, last.args.template_name)
        n == FirstMissing(text, last.args.variables)
    IN  (Rendered /\ Missing(text, last.args.variables) # {}) =>
            /\ last.res.status # "ok"
            /\ last.res.text = ""
            /\ IF InvalidBefore(text, n)
               THEN last.res.status = "ValueError" /\ last.res.key = ""
               ELSE /\ last.res.status = "KeyError"
                    /\ last.res.key = Matches(text)[n].name

\* a rendering of the template t that lacks its second placeholder
C2_Witness ==
    /\ Rendered
    /\ last.args.template_name = "t"
    /\ Cardinality(Placeholders(TemplateText(fs, engine, "t"))) = 2
    /\ Cardinality(Missing(TemplateText(fs, engine, "t"), last.args.variables)) = 1
    /\ last.res.status = "KeyError"
    /\ last.res.key = "b"

\* the "$" characters the substituted values of a rendering bring
RECURSIVE ValueDollars(_, _, _)
ValueDollars(ms, variables, j) ==
    IF j > Len(ms) THEN 0
    ELSE (IF ms[j].group \in {"named", "braced"}
          THEN DollarCount(variables[ms[j].name]) ELSE 0)
         + ValueDollars(ms, variables, j + 1)

EscapeCount(ms) == Cardinality({j \in 1..Len(ms) : ms[j].group = "escaped"})

\* C3 as stated: for every existing template and every mapping, with
\* arbitrary string values, that has a key for every placeholder the
\* template references, generate_from_template succeeds and the returned text
\* contains no "$" placeholder token.
C3_CompleteMappingRendersClean ==
    LET text == TemplateText(fs, engine, last.args.template_name)
    IN  (Rendered /\ Placeholders(text) \subseteq DOMAIN last.args.variables) =>
            /\ last.res.status = "ok"
            /\ Placeholders(last.res.text) = {}

\* C3 amended: for such a template and mapping, generate_from_template
\* succeeds unless the template text has an invalid "$", and then it raises
\* ValueError; the "$" characters of the returned text are exactly those of
\* the "$$" escapes of the template and of the substituted values, so the
\* text has no "$" when there is neither.
C3_CompleteMappingRenders ==
    LET text == TemplateText(fs, engine, last.args.template_name)
        ms == Matches(text)
    IN  (Rendered /\ Placeholders(text) \subseteq DOMAIN last.args.variables) =>
            IF HasInvalid(text)
            THEN last.res.status = "ValueError" /\ last.res.text = ""
            ELSE /\ last.res.status = "ok"
                 /\ DollarCount(last.res.text)
                       = EscapeCount(ms) + ValueDollars(ms, last.args.variables, 1)
                 /\ (EscapeCount(ms) = 0 /\ ValueDollars(ms, last.args.variables, 1) = 0)
                       => ~Contains(last.res.text, "$")

\* a rendering with every placeholder given whose text holds a placeholder
\* token that a value brought
C3_Witness ==
    /\ Rendered
    /\ Placeholders(TemplateText(fs, engine, last.args.template_name)) # {}
    /\ Placeholders(TemplateText(fs, engine, last.args.template_name))
          \subseteq DOMAIN last.args.variables
    /\ EscapeCount(Matches(TemplateText(fs, engine, last.args.template_name))) = 0
    /\ last.res.status = "ok"
    /\ Placeholders(last.res.text) # {}

\* the rule of C4: m is n with an underscore put before every uppercase
\* letter that is not the first character, the whole lowercased
FollowsRule(n, m) ==
    LET ups == {i \in 2..Len(n) : IsUpper(Char(n, i))}
        at(i) == i + Cardinality({j \in ups : j <= i})
    IN  /\ Len(m) = Len(n) + Cardinality(ups)
        /\ \A i \in 1..Len(n) :
              /\ Char(m, at(i)) = LowerChar(Char(n, i))
              /\ i \in ups => Char(m, at(i) - 1) = "_"

Derives(class_name, module) ==
    (~last.args.module_name.given /\ last.args.class_name = class_name)
        => last.res.module_name = module

\* C4: when module_name is absent, create_python_class and create_test_file
\* both derive it from class_name by the rule (an underscore before every
\* uppercase letter but the first character, then lowercased): MyClassName
\* gives my_class_name, Widget gives widget, HTTPServer gives
\* h_t_t_p_server; a module_name that is supplied is used unchanged.
C4_ModuleNameDerivation ==
    last.op \in {"create_python_class", "create_test_file"} =>
        /\ IF last.args.module_name.given
           THEN last.res.module_name = last.args.module_name.value
           ELSE FollowsRule(last.args.class_name, last.res.module_name)
        /\ Derives("MyClassName", "my_class_name")
        /\ Derives("Widget", "widget")
        /\ Derives("HTTPServer", "h_t_t_p_server")
        /\ Char(last.args.class_name, 1) # "_" => Char(last.res.module_name, 1) # "_"

\* a test file made for HTTPServer with no module name given
C4_Witness ==
    /\ last.op = "create_test_file"
    /\ last.args.class_name = "HTTPServer"
    /\ ~last.args.module_name.given
    /\ last.res.status = "ok"
    /\ last.res.output_path = "out/test_h_t_t_p_server.py"
    /\ IsFile(fs, last.res.output_path)

\* the store holds the built-in package template
BuiltinPackageTemplate(f) ==
    /\ IsFile(f, BuiltinPath(engine, 1))
    /\ f[BuiltinPath(engine, 1)].content = python_pkg_template

PackageArtifact(p) ==
    /\ IsFile(fs, p)
    /\ Contains(fs[p].content, last.args.package_name)
    /\ Contains(fs[p].content, last.args.author)
    /\ ~Contains(fs[p].content, "$package_name")

\* C5: for every package name, author and output directory, whether or not
\* the output directory exists, create_python_package completes and leaves
\* <output_dir>/<name>/__init__.py and <output_dir>/<name>/main.py, both
\* holding the package name and the author and neither holding
\* "$package_name" (nothing being in the way at the two paths).
C5_PackageCreatedAnywhere ==
    (/\ last.op = "create_python_package"
     /\ BuiltinPackageTemplate(last.pre)
     /\ ~IsDir(last.pre, last.res.init_path)
     /\ ~IsDir(last.pre, last.res.main_path)) =>
        /\ last.res.status = "ok"
        /\ last.res.init_path
              = Join(Join(last.args.output_dir, last.args.package_name), "__init__.py")
        /\ last.res.main_path
              = Join(Join(last.args.output_dir, last.args.package_name), "main.py")
        /\ PackageArtifact(last.res.init_path)
        /\ PackageArtifact(last.res.main_path)

\* the store was seeded from nothing and is as seeding left it
FreshlySeeded ==
    /\ {p \in DOMAIN fs : IsUnder(p, engine)}
          = {Join(engine, "python")} \cup {BuiltinPath(engine, k) : k \in Builtins}
    /\ \A k \in Builtins : fs[BuiltinPath(engine, k)] = File(templates[k].content)

\* C6: after default seeding of an initially empty store root and no other
\* change to the store, list_templates returns exactly the three seeded
\* template names, in some order: nothing missing, nothing extra, no
\* duplicates.
C6_FreshStoreListsThree ==
    (last.op = "list_templates" /\ FreshlySeeded) =>
        /\ Len(last.res.names) = Len(templates)
        /\ {last.res.names[i] : i \in 1..Len(last.res.names)}
              = {templates[k].template_path : k \in Builtins}

\* a listing of a freshly seeded store that gives the class template first
C6_Witness ==
    /\ last.op = "list_templates"
    /\ FreshlySeeded
    /\ last.res.names[1] = "python/class.py"

\* C7: create_python_package does not roll back: when its first write
\* succeeded and its second write failed, the error reaches the caller and
\* __init__.py is on disk with its fully rendered content.
C7_FirstArtifactRemains ==
    (last.op = "create_python_package" /\ last.res.stage = "main") =>
        /\ last.res.status # "ok"
        /\ IsFile(fs, last.res.init_path)
        /\ \E now \in Clocks :
              fs[last.res.init_path].content
                 = Substitute(TemplateText(last.pre, engine, "python/package.py"),
                              with_date([package_name |-> last.args.package_name,
                                         author |-> last.args.author], now)).text
        /\ BuiltinPackageTemplate(last.pre)
              => /\ Contains(fs[last.res.init_path].content, last.args.author)
                 /\ ~Contains(fs[last.res.init_path].content, "$")

\* a package whose main.py could not be written, its __init__.py new on disk
C7_Witness ==
    /\ last.op = "create_python_package"
    /\ last.res.stage = "main"
    /\ last.res.status = "IsADirectoryError"
    /\ ~Exists(last.pre, last.res.init_path)
    /\ IsFile(fs, last.res.init_path)

\* C8: after any sequence of create_from_template calls, the file at an
\* output path holds exactly the text rendered by the last successful call
\* on that path, nothing of what it held before, and every directory above
\* the path exists.
C8_LastWriterWins ==
    \A p \in DOMAIN written :
        /\ IsFile(fs, p)
        /\ fs[p].content = written[p]
        /\ \A d \in Ancestors(p) : IsDir(fs, d)

\* a second successful write at a path below directories the first one made
C8_Witness ==
    /\ last.op = "create_from_template"
    /\ last.res.status = "ok"
    /\ last.args.output_path = "new/sub/a.py"
    /\ IsFile(last.pre, last.args.output_path)
    /\ last.pre[last.args.output_path].content # last.res.text
    /\ fs[last.args.output_path].content = last.res.text

\* C9: when create_from_template fails because the template does not exist
\* or a placeholder has no value, the filesystem is as it was: no directory
\* above output_path was made, no file was made at output_path, and a file
\* at output_path keeps its content.
C9_FailedRenderWritesNothing ==
    last.op = "create_from_template" =>
        \A now \in Clocks :
            LET generated == generate_from_template(last.pre, engine,
                                last.args.template_name, last.args.variables, now)
            IN  generated.status # "ok" =>
                    /\ last.res.status = generated.status
                    /\ fs = last.pre

\* a rendering that lacked a placeholder, the parent of output_path absent
C9_Witness ==
    /\ last.op = "create_from_template"
    /\ last.res.status = "KeyError"
    /\ ~Exists(last.pre, Parent(last.args.output_path))
    /\ ~Exists(fs, Parent(last.args.output_path))

\* C10: every name list_templates returns, whatever the store holds (names
\* with a leading dot included), loads with load_template on the same
\* engine, which gives the content of the file the name was made from.
C10_ListedNamesLoad ==
    last.op = "list_templates" =>
        \A i \in 1..Len(last.res.entries) :
            LET loaded == load_template(fs, engine, last.res.entries[i].name)
            IN  /\ loaded.status = "ok"
                /\ loaded.text = fs[last.res.entries[i].file].content

====
